---- MODULE Spec2Model ----
(***************************************************************************)
(* Prim's algorithm of the telephone planner (src/lib/logic.ts) and the     *)
(* memoised computation of App.tsx that builds the candidate edge list and  *)
(* calls it.                                                                *)
(*                                                                          *)
(* runPrimsAlgorithm is modelled twice from the same helpers: as a state    *)
(* machine with one action per iteration of its while loop (so that a       *)
(* property of "every step" is a property of every transition), and as the  *)
(* recursive operator runPrimsAlgorithm (the function as a value).          *)
(*                                                                          *)
(* Weights are integers.  A candidate edge is [from, to, weight]; the       *)
(* optional field `distance` of the source is a copy of `weight` that the   *)
(* algorithm never reads, and is left out.                                  *)
(***************************************************************************)
EXTENDS Integers, Sequences, FiniteSets, TLC

VARIABLES caller, pc, villages, allEdges, startNodeId,
          visited, mst, sequence, animationSequence

\* the state of the mounted App component (none while a single call is studied)
VARIABLES component, mode, searchOtherNodes, searchStartNodeId,
          csvData, csvStartNodeId, startNode, otherNodes,
          animationStep, isPlaying

appVars == <<component, mode, searchOtherNodes, searchStartNodeId,
             csvData, csvStartNodeId, startNode, otherNodes,
             animationStep, isPlaying>>

vars == <<caller, pc, villages, allEdges, startNodeId,
          visited, mst, sequence, animationSequence, appVars>>

(***************************************************************************)
(* Bounds of the model.                                                     *)
(***************************************************************************)
\* points of a call made by the App's memo (coordinates on the equator)
MaxN == 4
\* longitudes of those points, in whole degrees: 0..MaxLon
MaxLon == 2
\* points of a direct call with a complete edge list of arbitrary weights
MaxK == 3
\* weights of those edges: 0..MaxW
MaxW == 2
\* length of an arbitrary (incomplete, stale, duplicated) candidate edge list
MaxIrr == 2

(***************************************************************************)
(* Values.                                                                  *)
(***************************************************************************)
\* an absent startNodeId (undefined / null)
None == -1

Village(i, x) == [id |-> i, lat |-> 0, lon |-> x]

\* startNode === null
NoVillage == [id |-> None, lat |-> 0, lon |-> 0]

Edge(f, t, w) == [from |-> f, to |-> t, weight |-> w]

Abs(x) == IF x < 0 THEN -x ELSE x

\* haversineDistance for two points of the equator (lat1 = lat2 = 0) whose
\* longitudes differ by at most 180 degrees: a = sin^2(dLon/2), so
\* c = 2*atan2(|sin(dLon/2)|, cos(dLon/2)) = |dLon| in radians, and the result
\* is R*pi/180 * |lon2 - lon1|.  The model's unit of length is R*pi/180 km
\* (one degree of arc, about 111.19 km).
haversineDistance(lat1, lon1, lat2, lon2) == Abs(lon2 - lon1)

(***************************************************************************)
(* runPrimsAlgorithm, src/lib/logic.ts.                                     *)
(***************************************************************************)
Ids(v) == {v[i].id : i \in 1..Len(v)}

\* const startingPoint = startNodeId ?? villages[0].id
StartingPointLast(v, s) == IF s = None THEN v[Len(v)].id ELSE s

StartingPoint(v, s) == IF s = None THEN v[1].id ELSE s

\* while (visited.size < villages.length)
LoopContinuesShort(vis, v) == Cardinality(vis) + 1 < Len(v)

LoopContinuesLong(vis, v) == Cardinality(vis) <= Len(v)

LoopContinues(vis, v) == Cardinality(vis) < Len(v)

\* (fromVisited && !toVisited) || (!fromVisited && toVisited)
IsFrontierOneWay(e, vis) == e.from \in vis /\ e.to \notin vis

IsFrontier(e, vis) ==
    LET fromVisited == e.from \in vis
        toVisited == e.to \in vis
    IN  (fromVisited /\ ~toVisited) \/ (~fromVisited /\ toVisited)

\* edge.weight < minEdge.weight
LighterOrEqual(e, m) == e.weight <= m.weight

Heavier(e, m) == e.weight > m.weight

Lighter(e, m) == e.weight < m.weight

\* the for loop over allEdges, from position i on, with minEdge = edges[min]
\* (min = 0 is minEdge === null); the value is the position of the final minEdge
RECURSIVE Scan(_, _, _, _)
Scan(edges, vis, i, min) ==
    IF i > Len(edges) THEN min
    ELSE IF IsFrontier(edges[i], vis)
              /\ (min = 0 \/ Lighter(edges[i], edges[min]))
         THEN Scan(edges, vis, i + 1, i)
         ELSE Scan(edges, vis, i + 1, min)

FindMinEdge(edges, vis) == Scan(edges, vis, 1, 0)

\* visited.has(minEdge.from) ? minEdge.to : minEdge.from
NewlyVisited(e, vis) == IF e.from \in vis THEN e.to ELSE e.from

\* the while loop as a function of (visited, accepted edges so far)
RECURSIVE PrimLoop(_, _, _, _)
PrimLoop(v, edges, vis, acc) ==
    IF ~LoopContinues(vis, v) THEN acc
    ELSE LET m == FindMinEdge(edges, vis)
         IN  IF m = 0 THEN acc
             ELSE PrimLoop(v, edges,
                           vis \cup {NewlyVisited(edges[m], vis)},
                           Append(acc, edges[m]))

\* the function as a value: { mst, sequence }
runPrimsAlgorithm(v, edges, s) ==
    IF Len(v) = 0 THEN [mst |-> <<>>, sequence |-> <<>>]
    ELSE LET r == PrimLoop(v, edges, {StartingPoint(v, s)}, <<>>)
         IN  [mst |-> r, sequence |-> r]

(***************************************************************************)
(* The memoised computation of the App (useMemo over villages and           *)
(* startNodeId).                                                            *)
(***************************************************************************)
\* if (villages.length < 2 || !startNodeId) return { animationSequence: [] }
\* (!startNodeId holds of null and of the identifier 0)
MemoSkipsFewOnly(v, s) == Len(v) < 2

MemoSkips(v, s) == Len(v) < 2 \/ s = None \/ s = 0

\* the inner loop: for (let j = i + 1; j < villages.length; j++) push(...)
RECURSIVE InnerEdgesByIndex(_, _, _)
InnerEdgesByIndex(v, i, j) ==
    IF j > Len(v) THEN <<>>
    ELSE <<Edge(v[i].id, j,
                haversineDistance(v[i].lat, v[i].lon, v[j].lat, v[j].lon))>>
         \o InnerEdgesByIndex(v, i, j + 1)

RECURSIVE InnerEdges(_, _, _)
InnerEdges(v, i, j) ==
    IF j > Len(v) THEN <<>>
    ELSE <<Edge(v[i].id, v[j].id,
                haversineDistance(v[i].lat, v[i].lon, v[j].lat, v[j].lon))>>
         \o InnerEdges(v, i, j + 1)

\* the outer loop: for (let i = 0; i < villages.length; i++)
RECURSIVE OuterEdges(_, _)
OuterEdges(v, i) ==
    IF i > Len(v) THEN <<>>
    ELSE InnerEdges(v, i, i + 1) \o OuterEdges(v, i + 1)

allPossibleEdges(v) == OuterEdges(v, 1)

(***************************************************************************)
(* Inputs.                                                                  *)
(***************************************************************************)
SeqsUpTo(S, n) == UNION {[1..k -> S] : k \in 0..n}

\* point lists the memo is given: identifiers base, base+1, ... (base 0 makes
\* the identifier 0 occur), on the equator at whole-degree longitudes
GeoVillages ==
    {[i \in 1..n |-> Village(base + i - 1, lons[i])] :
        <<n, base, lons>> \in
            {<<n, base, lons>> \in (0..MaxN) \X {0, 1} \X SeqsUpTo(0..MaxLon, MaxN) :
                Len(lons) = n}}

\* point lists 1..n of a direct call
PlainVillages(n) == [i \in 1..n |-> Village(i, 0)]

\* the complete edge list over v in nested-loop order with the weights w
Weighted(v, w) ==
    LET base == allPossibleEdges(v)
    IN  [k \in 1..Len(base) |-> Edge(base[k].from, base[k].to, w[k])]

\* the same edges in the opposite order, each with its endpoints exchanged
Reversed(edges) ==
    [k \in 1..Len(edges) |->
        LET e == edges[Len(edges) + 1 - k] IN Edge(e.to, e.from, e.weight)]

\* point lists and edges of the calls with an arbitrary candidate list:
\* identifiers may repeat, an edge may be a loop, a duplicate, or mention an
\* identifier (3) that is no point
IrrVillageIds == {<<>>, <<1>>, <<1, 2>>, <<2, 1>>, <<1, 1>>, <<1, 2, 3>>}

IrrEdges == {Edge(f, t, w) : <<f, t, w>> \in {1, 2, 3} \X {1, 2, 3} \X {1, 2}}

(***************************************************************************)
(* Initial states: one call per behaviour, about to be made.                *)
(***************************************************************************)
\* the App's memo is about to run on its villages and startNodeId
InitMemo ==
    /\ caller = "memo"
    /\ pc = "memo"
    /\ villages \in GeoVillages
    /\ startNodeId \in {None} \cup (0..(MaxN + 1))
    /\ allEdges = <<>>

\* runPrimsAlgorithm is about to be called with a complete candidate list of
\* arbitrary weights, in nested-loop order or reversed
InitComplete ==
    /\ caller = "direct"
    /\ pc = "call"
    /\ \E n \in 0..MaxK :
         /\ villages = PlainVillages(n)
         /\ startNodeId \in {None} \cup (1..(n + 1))
         /\ \E w \in [1..((n * (n - 1)) \div 2) -> 0..MaxW], rev \in BOOLEAN :
              allEdges = IF rev THEN Reversed(Weighted(villages, w))
                                ELSE Weighted(villages, w)

\* runPrimsAlgorithm is about to be called with an arbitrary candidate list
InitIrregular ==
    /\ caller = "direct"
    /\ pc = "call"
    /\ \E ids \in IrrVillageIds :
         villages = [i \in 1..Len(ids) |-> Village(ids[i], 0)]
    /\ startNodeId \in {None, 1, 2, 3}
    /\ allEdges \in SeqsUpTo(IrrEdges, MaxIrr)

\* no App component is mounted: its state does not exist
NoApp ==
    /\ component = "none"
    /\ mode = "search"
    /\ searchOtherNodes = <<>>
    /\ searchStartNodeId = None
    /\ csvData = <<>>
    /\ csvStartNodeId = None
    /\ startNode = NoVillage
    /\ otherNodes = <<>>
    /\ animationStep = 0
    /\ isPlaying = FALSE

Init ==
    /\ visited = {}
    /\ mst = <<>>
    /\ sequence = <<>>
    /\ animationSequence = <<>>
    /\ NoApp
    /\ (InitMemo \/ InitComplete \/ InitIrregular)

(***************************************************************************)
(* Actions.                                                                 *)
(***************************************************************************)
\* useMemo, the guard holds: no call is made
MemoSkip ==
    /\ pc = "memo"
    /\ MemoSkips(villages, startNodeId)
    /\ animationSequence' = <<>>
    /\ pc' = "memoDone"
    /\ UNCHANGED appVars
    /\ UNCHANGED <<caller, villages, allEdges, startNodeId, visited, mst, sequence>>

\* useMemo, the guard fails: build allPossibleEdges and call runPrimsAlgorithm
MemoCall ==
    /\ pc = "memo"
    /\ ~MemoSkips(villages, startNodeId)
    /\ allEdges' = allPossibleEdges(villages)
    /\ pc' = "call"
    /\ UNCHANGED appVars
    /\ UNCHANGED <<caller, villages, startNodeId, visited, mst, sequence,
                   animationSequence>>

\* if (villages.length === 0) return { mst: [], sequence: [] }
PrimEmpty ==
    /\ pc = "call"
    /\ Len(villages) = 0
    /\ mst' = <<>>
    /\ sequence' = <<>>
    /\ pc' = "done"
    /\ UNCHANGED appVars
    /\ UNCHANGED <<caller, villages, allEdges, startNodeId, visited,
                   animationSequence>>

\* mst = [], sequence = [], visited = { startingPoint }
PrimStart ==
    /\ pc = "call"
    /\ Len(villages) # 0
    /\ mst' = <<>>
    /\ sequence' = <<>>
    /\ visited' = {StartingPoint(villages, startNodeId)}
    /\ pc' = "loop"
    /\ UNCHANGED appVars
    /\ UNCHANGED <<caller, villages, allEdges, startNodeId, animationSequence>>

\* one iteration of the while loop that finds a minEdge, pushed to sequence only
PrimAcceptSequenceOnly ==
    /\ pc = "loop"
    /\ LoopContinues(visited, villages)
    /\ LET m == FindMinEdge(allEdges, visited)
       IN  /\ m # 0
           /\ sequence' = Append(sequence, allEdges[m])
           /\ visited' = visited \cup {NewlyVisited(allEdges[m], visited)}
    /\ UNCHANGED appVars
    /\ UNCHANGED <<caller, pc, villages, allEdges, startNodeId, mst,
                   animationSequence>>

\* one iteration of the while loop that finds a minEdge
PrimAccept ==
    /\ pc = "loop"
    /\ LoopContinues(visited, villages)
    /\ LET m == FindMinEdge(allEdges, visited)
       IN  /\ m # 0
           /\ mst' = Append(mst, allEdges[m])
           /\ sequence' = Append(sequence, allEdges[m])
           /\ visited' = visited \cup {NewlyVisited(allEdges[m], visited)}
    /\ UNCHANGED appVars
    /\ UNCHANGED <<caller, pc, villages, allEdges, startNodeId, animationSequence>>

\* an iteration whose scan finds no frontier edge: break, then return, with
\* the accepted edges dropped
PrimBreakDrops ==
    /\ pc = "loop"
    /\ LoopContinues(visited, villages)
    /\ FindMinEdge(allEdges, visited) = 0
    /\ mst' = <<>>
    /\ sequence' = <<>>
    /\ pc' = "done"
    /\ UNCHANGED appVars
    /\ UNCHANGED <<caller, villages, allEdges, startNodeId, visited,
                   animationSequence>>

\* an iteration whose scan finds no frontier edge: break, then return
PrimBreak ==
    /\ pc = "loop"
    /\ LoopContinues(visited, villages)
    /\ FindMinEdge(allEdges, visited) = 0
    /\ pc' = "done"
    /\ UNCHANGED appVars
    /\ UNCHANGED <<caller, villages, allEdges, startNodeId, visited, mst, sequence,
                   animationSequence>>

\* the loop condition fails: return { mst, sequence }
PrimReturn ==
    /\ pc = "loop"
    /\ ~LoopContinues(visited, villages)
    /\ pc' = "done"
    /\ UNCHANGED appVars
    /\ UNCHANGED <<caller, villages, allEdges, startNodeId, visited, mst, sequence,
                   animationSequence>>

\* const { sequence } = runPrimsAlgorithm(...); return { animationSequence: sequence }
MemoReturn ==
    /\ pc = "done"
    /\ caller = "memo"
    /\ animationSequence' = sequence
    /\ pc' = "memoDone"
    /\ UNCHANGED appVars
    /\ UNCHANGED <<caller, villages, allEdges, startNodeId, visited, mst, sequence>>

Next ==
    \/ MemoSkip
    \/ MemoCall
    \/ PrimEmpty
    \/ PrimStart
    \/ PrimAccept
    \/ PrimBreak
    \/ PrimReturn
    \/ MemoReturn

Spec == Init /\ [][Next]_vars

\* the call is synchronous code: it runs to its end once started
FairSpec == Spec /\ WF_vars(Next)

(***************************************************************************)
(* Vocabulary of the properties.                                            *)
(***************************************************************************)
\* runPrimsAlgorithm has returned (its result is in mst and sequence)
Returned == pc = "done"

UniqueIds(v) == \A i, j \in 1..Len(v) : v[i].id = v[j].id => i = j

\* edges holds exactly one edge per unordered pair of the (distinct) points of v
CompleteOver(v, edges) ==
    /\ UniqueIds(v)
    /\ 2 * Len(edges) = Len(v) * (Len(v) - 1)
    /\ \A i, j \in 1..Len(v) :
         i < j =>
           \E k \in 1..Len(edges) :
              {edges[k].from, edges[k].to} = {v[i].id, v[j].id}

\* the start is the implicit first point or the identifier of a point
ResolvedStart(v, s) == s = None \/ s \in Ids(v)

\* exactly one endpoint of e is in vis
ExactlyOneIn(e, vis) == (e.from \in vis) # (e.to \in vis)

Endpoints(es) == UNION {{es[k].from, es[k].to} : k \in 1..Len(es)}

RECURSIVE SumWeights(_)
SumWeights(es) ==
    IF Len(es) = 0 THEN 0 ELSE es[1].weight + SumWeights(Tail(es))

\* the identifiers joined to those of R by the edges of positions S
RECURSIVE Reach(_, _, _)
Reach(edges, S, R) ==
    LET R2 == R \cup UNION {{edges[k].from, edges[k].to} :
                              k \in {x \in S : edges[x].from \in R \/ edges[x].to \in R}}
    IN  IF R2 = R THEN R ELSE Reach(edges, S, R2)

\* the spanning trees of the candidate graph, as sets of positions of edges
SpanningTrees(v, edges) ==
    {S \in SUBSET (1..Len(edges)) :
        /\ Cardinality(S) = Len(v) - 1
        /\ Reach(edges, S, {v[1].id}) = Ids(v)}

TreeWeight(edges, S) ==
    SumWeights([k \in 1..Len(edges) |->
                   IF k \in S THEN edges[k] ELSE Edge(0, 0, 0)])

\* C1: n >= 2 points with unique identifiers, a complete candidate list and a
\* resolved start: the returned sequence has exactly n - 1 edges.
C1_TreeSize ==
    (/\ Returned
     /\ Len(villages) >= 2
     /\ UniqueIds(villages)
     /\ CompleteOver(villages, allEdges)
     /\ ResolvedStart(villages, startNodeId))
    => Len(sequence) = Len(villages) - 1

C1_Witness ==
    /\ Returned
    /\ Len(villages) >= 3
    /\ CompleteOver(villages, allEdges)
    /\ startNodeId \in Ids(villages)
    /\ startNodeId # villages[1].id
    /\ Len(sequence) = Len(villages) - 1

\* C2: with a complete candidate list and a start that is a point (or absent),
\* the weights of the returned edges sum to the least weight of a spanning
\* tree of the candidate graph, all spanning trees being enumerated.
C2_Minimal ==
    (/\ Returned
     /\ Len(villages) >= 1
     /\ CompleteOver(villages, allEdges)
     /\ ResolvedStart(villages, startNodeId))
    => LET T == SpanningTrees(villages, allEdges)
       IN  /\ \E S \in T : TreeWeight(allEdges, S) = SumWeights(sequence)
           /\ \A S \in T : TreeWeight(allEdges, S) >= SumWeights(sequence)

\* a returned tree on 3 or more points, from a start that is not the first
\* point, where two candidate edges tie and some spanning tree is heavier
C2_Witness ==
    /\ Returned
    /\ Len(villages) >= 3
    /\ CompleteOver(villages, allEdges)
    /\ startNodeId \in Ids(villages) \ {villages[1].id}
    /\ \E i, j \in 1..Len(allEdges) :
         i # j /\ allEdges[i].weight = allEdges[j].weight
    /\ \E S \in SpanningTrees(villages, allEdges) :
         TreeWeight(allEdges, S) > SumWeights(sequence)
    /\ \A S \in SpanningTrees(villages, allEdges) :
         TreeWeight(allEdges, S) >= SumWeights(sequence)

\* C3: the edge accepted by an iteration has exactly one endpoint in the
\* visited set, no frontier edge is lighter, and no frontier edge of the same
\* weight stands earlier in the candidate list.
C3_FirstLightestFrontier ==
    [][(pc = "loop" /\ Len(sequence') = Len(sequence) + 1) =>
          LET F == {k \in 1..Len(allEdges) : ExactlyOneIn(allEdges[k], visited)}
          IN  \E k \in F :
                /\ sequence'[Len(sequence')] = allEdges[k]
                /\ \A j \in F :
                     /\ allEdges[k].weight <= allEdges[j].weight
                     /\ allEdges[j].weight = allEdges[k].weight => k <= j]_vars

\* the first edge was accepted although a different frontier edge of the same
\* weight stands later in the candidate list, and a second edge followed
C3_Witness ==
    /\ Returned
    /\ Len(sequence) >= 2
    /\ LET start == {StartingPoint(villages, startNodeId)}
       IN  \E j \in 1..Len(allEdges) :
              /\ ExactlyOneIn(allEdges[j], start)
              /\ allEdges[j] # sequence[1]
              /\ allEdges[j].weight = sequence[1].weight

\* C4: called without a start identifier on a non-empty point list, the
\* function returns what the same call with startNodeId = points[0].id returns.
C4_DefaultStart ==
    (/\ Returned
     /\ startNodeId = None
     /\ Len(villages) >= 1)
    => /\ [mst |-> mst, sequence |-> sequence]
            = runPrimsAlgorithm(villages, allEdges, villages[1].id)
       /\ villages[1].id \in visited

\* a call without start whose first point is not the point of least
\* identifier, and that accepted an edge
C4_Witness ==
    /\ Returned
    /\ startNodeId = None
    /\ Len(villages) >= 2
    /\ villages[1].id > villages[2].id
    /\ Len(sequence) >= 1

C6_FewPointsEmpty ==
    (Returned /\ Len(villages) < 2) => (mst = <<>> /\ sequence = <<>>)

\* a single point, a start identifier given, and a candidate edge that has
\* exactly one endpoint in the visited set: it is not accepted
C6_Witness ==
    /\ Returned
    /\ Len(villages) = 1
    /\ startNodeId # None
    /\ \E k \in 1..Len(allEdges) : ExactlyOneIn(allEdges[k], visited)
    /\ sequence = <<>>

\* C7: every call ends, and an iteration that finds no frontier edge ends the
\* call with exactly the edges accepted so far.
C7_Terminates ==
    /\ <>(pc \in {"done", "memoDone"})
    /\ [][(/\ pc = "loop"
           /\ Cardinality(visited) < Len(villages)
           /\ \A k \in 1..Len(allEdges) : ~ExactlyOneIn(allEdges[k], visited))
          => (pc' = "done" /\ mst' = mst /\ sequence' = sequence)]_vars

\* the call ended by the early exit, with an edge accepted before it
C7_Witness ==
    /\ Returned
    /\ Cardinality(visited) < Len(villages)
    /\ Len(sequence) >= 1
    /\ ~CompleteOver(villages, allEdges)

\* the identifiers of the result are identifiers of points
ResultOverPoints ==
    /\ Endpoints(mst) \subseteq Ids(villages)
    /\ Endpoints(sequence) \subseteq Ids(villages)

\* C8 as stated: after every call, the from and to of every edge of mst and
\* sequence are identifiers of points.
C8_Original == Returned => ResultOverPoints

\* C8 as amended: that holds of every call whose candidate edges all join
\* points of the list, and so of every call the App's computation makes.
C8_ResultOverPoints ==
    (Returned /\ (caller = "memo" \/ Endpoints(allEdges) \subseteq Ids(villages)))
    => ResultOverPoints

\* a call by the App, its first point having the identifier 0, that returned
\* two or more edges
C8_Witness ==
    /\ Returned
    /\ caller = "memo"
    /\ villages[1].id = 0
    /\ Len(sequence) >= 2

\* C9: mst and sequence hold the same edges in the same order, throughout.
C9_SameLists ==
    /\ Len(mst) = Len(sequence)
    /\ \A i \in 1..Len(sequence) : mst[i] = sequence[i]

C9_Witness ==
    /\ Returned
    /\ Len(sequence) >= 2
    /\ sequence[1] # sequence[2]

\* every point is an endpoint of a returned edge, and the endpoint the first
\* edge adds to the visited set is not the start
Coverage ==
    /\ Ids(villages) \subseteq Endpoints(sequence)
    /\ Len(sequence) >= 1 =>
         LET start == StartingPoint(villages, startNodeId)
         IN  NewlyVisited(sequence[1], {start}) # start

\* C10 as stated: for every input of n >= 2 points with a complete candidate
\* list.
C10_Original ==
    (/\ Returned
     /\ Len(villages) >= 2
     /\ CompleteOver(villages, allEdges))
    => Coverage

\* C10 as amended: when, moreover, the start identifier is absent or is the
\* identifier of one of the points.
C10_Coverage ==
    (/\ Returned
     /\ Len(villages) >= 2
     /\ CompleteOver(villages, allEdges)
     /\ ResolvedStart(villages, startNodeId))
    => Coverage

C10_Witness ==
    /\ Returned
    /\ Len(villages) >= 3
    /\ CompleteOver(villages, allEdges)
    /\ startNodeId = villages[Len(villages)].id
    /\ Coverage

(***************************************************************************)
(* The App component with the two input modes (search / CSV), the first     *)
(* component of part_000.  Every action is one event handler followed by    *)
(* the re-render it causes: the useMemo over villages and startNodeId is    *)
(* recomputed, and the animation effect keeps a 300 ms timer pending        *)
(* exactly while isPlaying && animationStep < animationSequence.length.     *)
(***************************************************************************)
\* longest list of selected places or of other nodes the model builds
MaxSel == 3

\* if (searchOtherNodes.length >= 5) return
SearchLimit == 5

\* Number(...) of a cell that is no number
NaN == -2

\* what the search service offers: osm_id, and lat / lon as parseFloat reads
\* them (places of the equator)
Loc(i, x) == [osm_id |-> i, lat |-> 0, lon |-> x]

SearchResults == {Loc(1, 0), Loc(2, 1), Loc(3, 3)}

\* { id: loc.osm_id, name, lat: parseFloat(loc.lat), lon: parseFloat(loc.lon), population }
ToVillage(loc) == [id |-> loc.osm_id, lat |-> loc.lat, lon |-> loc.lon]

\* a parsed CSV row after the Number(...) conversions of the map callback;
\* name is whether row['Village'] is a non-empty string
Row(i, n, x) ==
    [id |-> i, name |-> n, lat |-> 0, lon |-> x, population |-> 100]

\* the files a user may upload: three good rows; a row without a numeric Id,
\* a row without a name and two good rows; two rows of the same Id
CsvFiles ==
    { <<Row(1, TRUE, 0), Row(2, TRUE, 1), Row(3, TRUE, 3)>>,
      <<Row(NaN, TRUE, 0), Row(5, FALSE, 1), Row(3, TRUE, 0), Row(4, TRUE, 2)>>,
      <<Row(2, TRUE, 0), Row(2, TRUE, 1)>> }

\* .filter(v => !isNaN(v.id) && v.name && !isNaN(v.lat) && !isNaN(v.lon)
\*              && !isNaN(v.population))
RowKept(v) ==
    /\ v.id # NaN
    /\ v.name
    /\ v.lat # NaN
    /\ v.lon # NaN
    /\ v.population # NaN

RowVillage(v) == [id |-> v.id, lat |-> v.lat, lon |-> v.lon]

\* mappedData
MappedData(rows) ==
    LET kept == SelectSeq(rows, RowKept)
    IN  [k \in 1..Len(kept) |-> RowVillage(kept[k])]

\* a number | null used as a condition
Truthy(n) == n # None /\ n # 0

\* canStart
canStart ==
    \/ (mode = "csv" /\ Len(csvData) > 0 /\ csvStartNodeId # None)
    \/ (mode = "search" /\ Len(searchOtherNodes) > 0 /\ searchStartNodeId # None)

\* the re-render with villages = v and startNodeId = s: the useMemo builds
\* the candidate list and calls runPrimsAlgorithm unless its guard holds
Render(v, s) ==
    /\ villages' = v
    /\ startNodeId' = s
    /\ IF MemoSkips(v, s)
       THEN /\ allEdges' = <<>>
            /\ mst' = <<>>
            /\ sequence' = <<>>
            /\ animationSequence' = <<>>
       ELSE LET e == allPossibleEdges(v)
                r == runPrimsAlgorithm(v, e, s)
            IN  /\ allEdges' = e
                /\ mst' = r.mst
                /\ sequence' = r.sequence
                /\ animationSequence' = r.sequence
    /\ UNCHANGED <<caller, pc, visited>>

\* what a handler that sets neither villages nor startNodeId leaves alone
SameGraph ==
    UNCHANGED <<caller, pc, visited, villages, startNodeId, allEdges, mst,
                sequence, animationSequence>>

\* the component is mounted: every useState holds its initial value
InitAppA ==
    /\ component = "A"
    /\ mode = "search"
    /\ searchOtherNodes = <<>>
    /\ searchStartNodeId = None
    /\ csvData = <<>>
    /\ csvStartNodeId = None
    /\ startNode = NoVillage
    /\ otherNodes = <<>>
    /\ villages = <<>>
    /\ startNodeId = None
    /\ animationStep = 0
    /\ isPlaying = FALSE
    /\ caller = "memo"
    /\ pc = "memoDone"
    /\ visited = {}
    /\ allEdges = <<>>
    /\ mst = <<>>
    /\ sequence = <<>>
    /\ animationSequence = <<>>

\* the radio buttons of the input method: setMode
setMode ==
    /\ component = "A"
    /\ \E m \in {"search", "csv"} :
         /\ m # mode
         /\ mode' = m
    /\ SameGraph
    /\ UNCHANGED <<component, searchOtherNodes, searchStartNodeId, csvData,
                   csvStartNodeId, startNode, otherNodes, animationStep, isPlaying>>

\* a search result is clicked (the search box is disabled outside search mode)
handleSelectSearchNode ==
    /\ component = "A"
    /\ mode = "search"
    /\ Len(searchOtherNodes) < SearchLimit
    /\ Len(searchOtherNodes) < MaxSel
    /\ \E loc \in SearchResults :
         searchOtherNodes' = Append(searchOtherNodes, ToVillage(loc))
    /\ SameGraph
    /\ UNCHANGED <<component, mode, searchStartNodeId, csvData,
                   csvStartNodeId, startNode, otherNodes, animationStep, isPlaying>>

\* a radio button of the search list: setSearchStartNodeId(v.id)
setSearchStartNodeId ==
    /\ component = "A"
    /\ mode = "search"
    /\ \E i \in 1..Len(searchOtherNodes) :
         searchStartNodeId' = searchOtherNodes[i].id
    /\ SameGraph
    /\ UNCHANGED <<component, mode, searchOtherNodes, csvData,
                   csvStartNodeId, startNode, otherNodes, animationStep, isPlaying>>

\* a file is chosen (the input is disabled outside CSV mode) and parsed;
\* the complete callback sets csvData and nothing else
handleFileUpload ==
    /\ component = "A"
    /\ mode = "csv"
    /\ \E file \in CsvFiles : csvData' = MappedData(file)
    /\ SameGraph
    /\ UNCHANGED <<component, mode, searchOtherNodes, searchStartNodeId,
                   csvStartNodeId, startNode, otherNodes, animationStep, isPlaying>>

\* a radio button of the CSV list (shown in CSV mode when csvData is not empty)
setCsvStartNodeId ==
    /\ component = "A"
    /\ mode = "csv"
    /\ \E i \in 1..Len(csvData) : csvStartNodeId' = csvData[i].id
    /\ SameGraph
    /\ UNCHANGED <<component, mode, searchOtherNodes, searchStartNodeId,
                   csvData, startNode, otherNodes, animationStep, isPlaying>>

\* the start button, without setAnimationStep(0)
handleStartAlgorithmKeepsStep ==
    /\ component = "A"
    /\ canStart
    /\ isPlaying' = FALSE
    /\ IF mode = "csv" /\ Len(csvData) > 0 /\ Truthy(csvStartNodeId)
       THEN Render(csvData, csvStartNodeId)
       ELSE IF mode = "search" /\ Len(searchOtherNodes) > 0
                 /\ Truthy(searchStartNodeId)
            THEN Render(searchOtherNodes, searchStartNodeId)
            ELSE Render(<<>>, None)
    /\ UNCHANGED <<component, mode, searchOtherNodes, searchStartNodeId,
                   csvData, csvStartNodeId, startNode, otherNodes, animationStep>>

\* the start button (disabled unless canStart)
handleStartAlgorithm ==
    /\ component = "A"
    /\ canStart
    /\ isPlaying' = FALSE
    /\ animationStep' = 0
    /\ IF mode = "csv" /\ Len(csvData) > 0 /\ Truthy(csvStartNodeId)
       THEN Render(csvData, csvStartNodeId)
       ELSE IF mode = "search" /\ Len(searchOtherNodes) > 0
                 /\ Truthy(searchStartNodeId)
            THEN Render(searchOtherNodes, searchStartNodeId)
            ELSE Render(<<>>, None)
    /\ UNCHANGED <<component, mode, searchOtherNodes, searchStartNodeId,
                   csvData, csvStartNodeId, startNode, otherNodes>>

\* the play button (disabled while playing or with fewer than 2 villages)
handlePlay ==
    /\ component = "A"
    /\ ~isPlaying
    /\ Len(villages) >= 2
    /\ isPlaying' = TRUE
    /\ SameGraph
    /\ UNCHANGED <<component, mode, searchOtherNodes, searchStartNodeId,
                   csvData, csvStartNodeId, startNode, otherNodes, animationStep>>

\* the pause button (disabled unless playing)
handlePause ==
    /\ component = "A"
    /\ isPlaying
    /\ isPlaying' = FALSE
    /\ SameGraph
    /\ UNCHANGED <<component, mode, searchOtherNodes, searchStartNodeId,
                   csvData, csvStartNodeId, startNode, otherNodes, animationStep>>

\* the reset button
handleReset ==
    /\ component = "A"
    /\ isPlaying' = FALSE
    /\ animationStep' = 0
    /\ searchOtherNodes' = <<>>
    /\ searchStartNodeId' = None
    /\ csvData' = <<>>
    /\ csvStartNodeId' = None
    /\ Render(<<>>, None)
    /\ UNCHANGED <<component, mode, startNode, otherNodes>>

\* the timer of the animation effect fires: setAnimationStep(prev => prev + 1)
animationTick ==
    /\ component = "A"
    /\ isPlaying
    /\ animationStep < Len(animationSequence)
    /\ animationStep' = animationStep + 1
    /\ SameGraph
    /\ UNCHANGED <<component, mode, searchOtherNodes, searchStartNodeId,
                   csvData, csvStartNodeId, startNode, otherNodes, isPlaying>>

(***************************************************************************)
(* The App component with a start node and other nodes (src/App.tsx, the    *)
(* second component of part_000).  villages is a useMemo of startNode and   *)
(* otherNodes; startNodeId holds the startNode.id the call is given.        *)
(***************************************************************************)
\* if (otherNodes.length >= 4) { alert(...); return }
OtherLimit == 4

\* startNode ? [startNode, ...otherNodes] : otherNodes
VillagesOf(sn, others) == IF sn # NoVillage THEN <<sn>> \o others ELSE others

\* if (villages.length < 2 || !startNode) return { mstEdges: [], animationSequence: [] }
MemoSkipsB(v, sn) == Len(v) < 2 \/ sn = NoVillage

\* the re-render with startNode = sn and otherNodes = others
RenderB(sn, others) ==
    LET v == VillagesOf(sn, others)
    IN  /\ villages' = v
        /\ startNodeId' = sn.id
        /\ IF MemoSkipsB(v, sn)
           THEN /\ allEdges' = <<>>
                /\ mst' = <<>>
                /\ sequence' = <<>>
                /\ animationSequence' = <<>>
           ELSE LET e == allPossibleEdges(v)
                    r == runPrimsAlgorithm(v, e, sn.id)
                IN  /\ allEdges' = e
                    /\ mst' = r.mst
                    /\ sequence' = r.sequence
                    /\ animationSequence' = r.sequence
        /\ UNCHANGED <<caller, pc, visited>>

InitAppB ==
    /\ component = "B"
    /\ mode = "search"
    /\ searchOtherNodes = <<>>
    /\ searchStartNodeId = None
    /\ csvData = <<>>
    /\ csvStartNodeId = None
    /\ startNode = NoVillage
    /\ otherNodes = <<>>
    /\ villages = <<>>
    /\ startNodeId = None
    /\ animationStep = 0
    /\ isPlaying = FALSE
    /\ caller = "memo"
    /\ pc = "memoDone"
    /\ visited = {}
    /\ allEdges = <<>>
    /\ mst = <<>>
    /\ sequence = <<>>
    /\ animationSequence = <<>>

\* a result of the first search box, shown while startNode is null
handleSelectStartNode ==
    /\ component = "B"
    /\ startNode = NoVillage
    /\ \E loc \in SearchResults :
         /\ startNode' = ToVillage(loc)
         /\ RenderB(ToVillage(loc), otherNodes)
    /\ UNCHANGED <<component, mode, searchOtherNodes, searchStartNodeId,
                   csvData, csvStartNodeId, otherNodes, animationStep, isPlaying>>

\* a result of the second search box, shown once startNode is set;
\* animationStep and isPlaying are not touched
handleSelectOtherNode ==
    /\ component = "B"
    /\ startNode # NoVillage
    /\ Len(otherNodes) < OtherLimit
    /\ Len(otherNodes) < MaxSel
    /\ \E loc \in SearchResults :
         /\ otherNodes' = Append(otherNodes, ToVillage(loc))
         /\ RenderB(startNode, Append(otherNodes, ToVillage(loc)))
    /\ UNCHANGED <<component, mode, searchOtherNodes, searchStartNodeId,
                   csvData, csvStartNodeId, startNode, animationStep, isPlaying>>

\* the Clear All button: setStartNode(null); setOtherNodes([]); handleReset()
clearAll ==
    /\ component = "B"
    /\ startNode' = NoVillage
    /\ otherNodes' = <<>>
    /\ isPlaying' = FALSE
    /\ animationStep' = 0
    /\ RenderB(NoVillage, <<>>)
    /\ UNCHANGED <<component, mode, searchOtherNodes, searchStartNodeId,
                   csvData, csvStartNodeId>>

\* the play button: a finished animation starts over
handlePlayB ==
    /\ component = "B"
    /\ ~isPlaying
    /\ Len(villages) >= 2
    /\ animationStep' = IF animationStep >= Len(animationSequence)
                        THEN 0 ELSE animationStep
    /\ isPlaying' = TRUE
    /\ SameGraph
    /\ UNCHANGED <<component, mode, searchOtherNodes, searchStartNodeId,
                   csvData, csvStartNodeId, startNode, otherNodes>>

handlePauseB ==
    /\ component = "B"
    /\ isPlaying
    /\ isPlaying' = FALSE
    /\ SameGraph
    /\ UNCHANGED <<component, mode, searchOtherNodes, searchStartNodeId,
                   csvData, csvStartNodeId, startNode, otherNodes, animationStep>>

\* the reset button: the nodes stay
handleResetB ==
    /\ component = "B"
    /\ isPlaying' = FALSE
    /\ animationStep' = 0
    /\ SameGraph
    /\ UNCHANGED <<component, mode, searchOtherNodes, searchStartNodeId,
                   csvData, csvStartNodeId, startNode, otherNodes>>

animationTickB ==
    /\ component = "B"
    /\ isPlaying
    /\ animationStep < Len(animationSequence)
    /\ animationStep' = animationStep + 1
    /\ SameGraph
    /\ UNCHANGED <<component, mode, searchOtherNodes, searchStartNodeId,
                   csvData, csvStartNodeId, startNode, otherNodes, isPlaying>>

InitApp == InitAppA \/ InitAppB

NextApp ==
    \/ setMode
    \/ handleSelectSearchNode
    \/ setSearchStartNodeId
    \/ handleFileUpload
    \/ setCsvStartNodeId
    \/ handleStartAlgorithm
    \/ handlePlay
    \/ handlePause
    \/ handleReset
    \/ animationTick
    \/ handleSelectStartNode
    \/ handleSelectOtherNode
    \/ clearAll
    \/ handlePlayB
    \/ handlePauseB
    \/ handleResetB
    \/ animationTickB

AppSpec == InitApp /\ [][NextApp]_vars

(***************************************************************************)
(* Properties of the App.                                                   *)
(***************************************************************************)
\* const edgesToDraw = animationSequence.slice(0, animationStep)
edgesToDraw ==
    SubSeq(animationSequence, 1,
           IF animationStep < Len(animationSequence)
           THEN animationStep ELSE Len(animationSequence))

\* the useMemo of the mounted component has called runPrimsAlgorithm with
\* the current villages, allEdges and startNodeId
Invoked ==
    \/ component = "A" /\ ~MemoSkips(villages, startNodeId)
    \/ component = "B" /\ ~MemoSkipsB(villages, startNode)

\* C11: in every state of either App component the reveal count is between 0
\* and the length of the current animation sequence, so the edges drawn are
\* its first animationStep edges.
C11_StepInRange ==
    component \in {"A", "B"} =>
       /\ 0 <= animationStep
       /\ animationStep <= Len(animationSequence)
       /\ Len(edgesToDraw) = animationStep

\* a playback of two edges that ran to its end, after which the start button
\* computed a different sequence
C11_Witness ==
    /\ component = "A"
    /\ mode = "csv"
    /\ Len(searchOtherNodes) = 3
    /\ Len(villages) = 2
    /\ Len(animationSequence) = 1
    /\ animationStep = 1
    /\ isPlaying

\* C12: an update that changes the animation sequence (because it changed the
\* point set or the start) sets animationStep to 0, so the sequence is fixed
\* from the first reveal until the reveal count is back to 0.
C12_SequenceFixedInRun ==
    [][animationSequence' # animationSequence => animationStep' = 0]_vars

\* the same, of the component with the two input modes only
C12_HoldsOfModesApp ==
    [][(component = "A" /\ (\/ villages' # villages
                            \/ startNodeId' # startNodeId
                            \/ animationSequence' # animationSequence))
       => animationStep' = 0]_vars

\* C14: the candidate list the App (with the search and CSV modes) passes to
\* runPrimsAlgorithm has no edge
\* from a point to itself, no unordered pair twice, and an edge for every
\* pair of villages.
C14_SimpleCompleteGraph ==
    (component = "A" /\ Invoked) =>
       /\ \A k \in 1..Len(allEdges) : allEdges[k].from # allEdges[k].to
       /\ \A k, l \in 1..Len(allEdges) :
            k # l => {allEdges[k].from, allEdges[k].to}
                       # {allEdges[l].from, allEdges[l].to}
       /\ 2 * Len(allEdges) = Len(villages) * (Len(villages) - 1)

\* C15: whenever the App has called runPrimsAlgorithm, the start identifier
\* of the call is the identifier of one of the villages of the call.
C15_StartIsVillage == Invoked => startNodeId \in Ids(villages)

====
